---- MODULE Spec2Model ----
(***************************************************************************)
(* Model of src/interactive_content_generator.py:                          *)
(*   - TechContentGenerator.generate_with_retry (tenacity @retry wrapper   *)
(*     around one primary call with an in-attempt backup call),            *)
(*   - TechContentGenerator.extract_code_block (three regex/prefix         *)
(*     strategies and a default stub),                                     *)
(*   - TechContentGenerator.generate_technical_content (four stages with   *)
(*     log_and_progress checkpoints) and its caller main().                *)
(*                                                                         *)
(* Texts are sequences of tokens.  Every token is an atomic piece of text  *)
(* that no regex literal of the source can straddle, so matching on token  *)
(* boundaries is matching on characters.                                   *)
(***************************************************************************)
EXTENDS Integers, Sequences, FiniteSets, TLC

VARIABLES
    pc,                 \* position in generate_technical_content / main
    rpc,                \* position inside the current generate_with_retry call
    attempt,            \* tenacity retry_state.attempt_number
    calls,              \* model calls and sleeps of the current generate_with_retry call
    outcome,            \* exception of the last failed attempt (retry_state.outcome)
    ret,                \* value the current generate_with_retry call returned
    failures,           \* model calls of this run that raised, so far
    stage_log,          \* stage-level events of the run, in order
    progress_callback,  \* TRUE iff the caller supplied a progress sink
    log_callback,       \* TRUE iff the caller supplied a log sink
    progress_events,    \* (percent, message) pairs delivered to the progress sink
    log_events,         \* messages delivered to the log sink
    blog_structure,     \* local of generate_technical_content (line 131)
    full_blog_content,  \* local (line 143)
    code_example_text,  \* local (line 155)
    extracted_code,     \* local (line 175)
    formatted_code,     \* local (line 176)
    format_call,        \* language and outcome of the last format_code call
    result,             \* what main() received: <<>> or <<report>>
    error               \* exception that reached main(), or NoError

vars == <<pc, rpc, attempt, calls, outcome, ret, failures, stage_log, progress_callback,
          log_callback, progress_events, log_events, blog_structure,
          full_blog_content, code_example_text, extracted_code,
          formatted_code, format_call, result, error>>

-----------------------------------------------------------------------------
(* Tokens of a text *)

\* three backticks
FENCE == "FENCE"
PY == "python"
JS == "js"
NL == "\n"
SP == " "
COPEN == "<code>"
CCLOSE == "</code>"
KW_DEF == "def"
KW_IMPORT == "import"
WORD == "x"
\* the whole text "# No code could be extracted\ndef example_function():\n    pass"
STUB == "# No code could be extracted\ndef example_function():\n    pass"

Token == {FENCE, PY, JS, NL, SP, COPEN, CCLOSE, KW_DEF, KW_IMPORT, WORD, STUB}

IsSpace(t) == t \in {NL, SP}

-----------------------------------------------------------------------------
(* str.strip() *)

RECURSIVE LStrip(_)
LStrip(s) ==
    IF s = <<>> THEN <<>>
    ELSE IF IsSpace(Head(s)) THEN LStrip(Tail(s))
    ELSE s

RECURSIVE RStrip(_)
RStrip(s) ==
    IF s = <<>> THEN <<>>
    ELSE IF IsSpace(s[Len(s)]) THEN RStrip(SubSeq(s, 1, Len(s) - 1))
    ELSE s

Strip(s) == RStrip(LStrip(s))

-----------------------------------------------------------------------------
(* re.search: leftmost start, then then the preferences of the pattern *)

NoMatch == [found |-> FALSE, group |-> <<>>]

\* mutation: a greedy (.*) runs to the last closing delimiter
RECURSIVE LastAt(_, _, _)
LastAt(s, tok, k) ==
    IF k > Len(s) THEN 0
    ELSE LET later == LastAt(s, tok, k + 1)
         IN  IF later # 0 THEN later ELSE IF s[k] = tok THEN k ELSE 0

\* smallest index >= k holding tok, or 0
RECURSIVE FirstAt(_, _, _)
FirstAt(s, tok, k) ==
    IF k > Len(s) THEN 0
    ELSE IF s[k] = tok THEN k
    ELSE FirstAt(s, tok, k + 1)

\* FENCE(?:python)?\n anchored at i: index where (.*?) begins, or 0.
\* The optional tag is tried first; without it the next token must be \n.
FenceBodyStart(s, i) ==
    IF s[i] # FENCE THEN 0
    ELSE IF i + 2 <= Len(s) /\ s[i + 1] = PY /\ s[i + 2] = NL THEN i + 3
    ELSE IF i + 1 <= Len(s) /\ s[i + 1] = NL THEN i + 2
    ELSE 0

\* re.search(FENCE (?:python)? \n (.*?) FENCE, s, re.DOTALL), start positions from i
RECURSIVE FenceSearch(_, _)
FenceSearch(s, i) ==
    IF i > Len(s) THEN NoMatch
    ELSE LET b == FenceBodyStart(s, i)
             k == IF b = 0 THEN 0 ELSE FirstAt(s, FENCE, b)
         IN  IF k # 0
             THEN [found |-> TRUE, group |-> SubSeq(s, b, k - 1)]
             ELSE FenceSearch(s, i + 1)

\* re.search(<code>(.*?)</code>, s, re.DOTALL), start positions from i
RECURSIVE CodeTagSearch(_, _)
CodeTagSearch(s, i) ==
    IF i > Len(s) THEN NoMatch
    ELSE LET k == IF s[i] = COPEN THEN FirstAt(s, CCLOSE, i + 1) ELSE 0
         IN  IF k # 0
             THEN [found |-> TRUE, group |-> SubSeq(s, i + 1, k - 1)]
             ELSE CodeTagSearch(s, i + 1)

\* s.startswith("def ") or s.startswith("import ")
StartsWithKeyword(s) ==
    /\ Len(s) >= 2
    /\ s[1] \in {KW_DEF, KW_IMPORT}
    /\ s[2] = SP

Placeholder == <<STUB>>

\* mutation: the <code> strategy is tried before the fence strategy
extract_code_block_reordered(model_output) ==
    LET fence == FenceSearch(model_output, 1)
        tag   == CodeTagSearch(model_output, 1)
    IN  IF tag.found THEN Strip(tag.group)
        ELSE IF fence.found THEN Strip(fence.group)
        ELSE IF StartsWithKeyword(Strip(model_output)) THEN Strip(model_output)
        ELSE Placeholder

extract_code_block(model_output) ==
    LET fence == FenceSearch(model_output, 1)
        tag   == CodeTagSearch(model_output, 1)
    IN  IF fence.found THEN Strip(fence.group)
        ELSE IF tag.found THEN Strip(tag.group)
        ELSE IF StartsWithKeyword(Strip(model_output)) THEN Strip(model_output)
        ELSE Placeholder

-----------------------------------------------------------------------------
(* format_code: black.format_str then isort.code, guarded by try/except *)

\* black ends a non-empty module with exactly one newline and drops trailing
\* blank space; isort leaves a text without reorderable imports as black left it
black_then_isort(code) ==
    IF Strip(code) = <<>> THEN <<>> ELSE RStrip(code) \o <<NL>>

\* str.lower() on the language names used
Lower(language) == IF language = "Python" THEN "python" ELSE language

NoFormatCall == [language |-> "none", black |-> "none"]

\* mutation: the except branch returns an empty string instead of code
format_code_drops_input(code, language, black) ==
    IF Lower(language) = "python"
    THEN IF black = "ok" THEN black_then_isort(code) ELSE <<>>
    ELSE code

\* black is "ok" when black.format_str and isort.code return, "raise" when
\* either raises (InvalidInput, internal error): caught by except Exception
format_code(code, language, black) ==
    IF Lower(language) = "python"
    THEN IF black = "ok" THEN black_then_isort(code) ELSE code
    ELSE code

-----------------------------------------------------------------------------
(* generate_with_retry: tenacity @retry around the try/except body *)

\* stop_after_attempt(3)
MaxAttempts == 3
\* wait_exponential(multiplier=1, min=4, max=10)
Multiplier == 1
WaitMin == 4
WaitMax == 10

RECURSIVE Pow2(_)
Pow2(n) == IF n <= 0 THEN 1 ELSE 2 * Pow2(n - 1)

Min2(a, b) == IF a <= b THEN a ELSE b
Max2(a, b) == IF a >= b THEN a ELSE b

\* mutation: min= is not applied, the wait is only capped
wait_exponential_no_floor(attempt_number) ==
    Min2(Multiplier * Pow2(attempt_number - 1), WaitMax)

\* tenacity wait_exponential.__call__: exp = 2 ** (attempt_number - 1);
\* max(max(0, min), min(multiplier * exp, max))
wait_exponential(attempt_number) ==
    Max2(Max2(0, WaitMin), Min2(Multiplier * Pow2(attempt_number - 1), WaitMax))

\* mutation: the comparison misses the last attempt by one
stop_after_attempt_late(attempt_number) == attempt_number > MaxAttempts

\* mutation: the budget is cut short
stop_after_attempt_early(attempt_number) == attempt_number >= MaxAttempts - 1

\* tenacity stop_after_attempt.__call__: attempt_number >= max_attempt_number
stop_after_attempt(attempt_number) == attempt_number >= MaxAttempts

\* What model.invoke(prompt) can do: return, raise an exception the except
\* clause names (anthropic.RateLimitError, anthropic.APIError), or raise any
\* other exception.
PrimaryOutcomes == {"ok", "caught", "other"}
\* What self.backup_model.invoke(prompt) can do: return or raise.
BackupOutcomes == {"ok", "fail"}

Call(who, out) == [who |-> who, out |-> out, secs |-> 0]
Sleep(secs) == [who |-> "sleep", out |-> "slept", secs |-> secs]

NoError == [who |-> "none", kind |-> "none", context |-> "none"]
NoValue == [by |-> "none", isStr |-> FALSE, content |-> <<>>]

Stages == {"research", "draft", "code"}

\* texts the code-generation model may answer with
CodeTexts ==
    { <<WORD, NL, FENCE, PY, NL, WORD, NL, FENCE, NL, WORD>>,
      <<WORD, SP, WORD>>,
      <<FENCE, NL, FENCE>> }

\* research_chain and creative_chain end in a chat model (a message with
\* .content); code_chain ends in StrOutputParser (a str)
PrimaryValues(stage) ==
    IF stage = "code"
    THEN { [by |-> "primary", isStr |-> TRUE, content |-> t] : t \in CodeTexts }
    ELSE { [by |-> "primary", isStr |-> FALSE, content |-> <<WORD>>] }

\* self.backup_model is a chat model: its answer is a message at every stage
BackupValues(stage) ==
    IF stage = "code"
    THEN { [by |-> "backup", isStr |-> FALSE, content |-> t] : t \in CodeTexts }
    ELSE { [by |-> "backup", isStr |-> FALSE, content |-> <<WORD>>] }

\* mutation: except Exception
ExceptClauseCatchesAll(out) == out # "ok"

\* line 82: except (anthropic.RateLimitError, anthropic.APIError)
ExceptClauseCatches(out) == out = "caught"

\* mutation: the callback swallows the last outcome and returns None
retry_error_callback_none == "returned"

\* line 73: retry_error_callback returns retry_state.outcome.result(), and
\* Future.result() re-raises the exception the last attempt stored
retry_error_callback == "raised"

\* An attempt raised err: tenacity stores it as the outcome, then either stops
\* (retry_error_callback re-raises outcome.result()) or sleeps and retries.
AttemptFailed(err) ==
    /\ outcome' = err
    /\ rpc' = IF stop_after_attempt(attempt) THEN retry_error_callback ELSE "sleep"
    /\ failures' = failures + 1
    /\ UNCHANGED <<attempt, ret>>

\* line 81: return model.invoke(prompt), and the except clause of line 82
PrimaryInvoke ==
    /\ pc \in Stages
    /\ rpc = "primary"
    /\ \E out \in PrimaryOutcomes :
        /\ calls' = Append(calls, Call("primary", out))
        /\ \/ /\ out = "ok"
              /\ \E v \in PrimaryValues(pc) : ret' = v
              /\ rpc' = "returned"
              /\ UNCHANGED <<attempt, outcome, failures>>
           \/ /\ out # "ok"
              /\ ExceptClauseCatches(out)
              /\ rpc' = "backup"
              /\ failures' = failures + 1
              /\ UNCHANGED <<attempt, outcome, ret>>
           \/ /\ out # "ok"
              /\ ~ExceptClauseCatches(out)
              /\ AttemptFailed([who |-> "primary", kind |-> out,
                                context |-> "none"])
    /\ UNCHANGED <<pc, stage_log, progress_callback, log_callback,
                   progress_events, log_events, blog_structure,
                   full_blog_content, code_example_text, extracted_code,
                   formatted_code, format_call, result, error>>

\* mutation: "raise e" re-raises the error of the primary model
BackupErrorIsPrimary == [who |-> "primary", kind |-> "caught", context |-> "none"]

\* lines 86-88: the bare raise re-raises backup_error; it was raised while the
\* primary error e was being handled, so e is its implicit __context__
BackupError == [who |-> "backup", kind |-> "fail", context |-> "caught"]

\* lines 84-88: return self.backup_model.invoke(prompt); except: raise
BackupInvoke ==
    /\ pc \in Stages
    /\ rpc = "backup"
    /\ \E out \in BackupOutcomes :
        /\ calls' = Append(calls, Call("backup", out))
        /\ \/ /\ out = "ok"
              /\ \E v \in BackupValues(pc) : ret' = v
              /\ rpc' = "returned"
              /\ UNCHANGED <<attempt, outcome, failures>>
           \/ /\ out = "fail"
              /\ AttemptFailed(BackupError)
    /\ UNCHANGED <<pc, stage_log, progress_callback, log_callback,
                   progress_events, log_events, blog_structure,
                   full_blog_content, code_example_text, extracted_code,
                   formatted_code, format_call, result, error>>

\* tenacity between attempts: sleep(wait(retry_state)), then the next attempt
RetrySleep ==
    /\ pc \in Stages
    /\ rpc = "sleep"
    /\ calls' = Append(calls, Sleep(wait_exponential(attempt)))
    /\ attempt' = attempt + 1
    /\ rpc' = "primary"
    /\ UNCHANGED <<pc, outcome, ret, failures, stage_log, progress_callback,
                   log_callback, progress_events, log_events, blog_structure,
                   full_blog_content, code_example_text, extracted_code,
                   formatted_code, format_call, result, error>>

\* entry of self.generate_with_retry(chain, {})
EnterRetry ==
    /\ rpc' = "primary"
    /\ attempt' = 1
    /\ calls' = <<>>
    /\ outcome' = NoError
    /\ ret' = NoValue

-----------------------------------------------------------------------------
(* generate_technical_content and its caller *)

\* percent=None, the default of log_and_progress
NonePercent == -1

\* mutation: the progress call is nested under "if log_callback"
log_and_progress_nested(sinks, message, percent) ==
    [log |-> IF log_callback THEN Append(sinks.log, message) ELSE sinks.log,
     progress |-> IF log_callback /\ progress_callback /\ percent # NonePercent
                  THEN Append(sinks.progress, <<percent, message>>)
                  ELSE sinks.progress]

\* mutation: "if progress_callback and percent" drops percent 0
log_and_progress_truthy(sinks, message, percent) ==
    [log |-> IF log_callback THEN Append(sinks.log, message) ELSE sinks.log,
     progress |-> IF progress_callback /\ percent # NonePercent /\ percent # 0
                  THEN Append(sinks.progress, <<percent, message>>)
                  ELSE sinks.progress]

\* log_and_progress(message, percent) applied to the two sinks
log_and_progress(sinks, message, percent) ==
    [log |-> IF log_callback THEN Append(sinks.log, message) ELSE sinks.log,
     progress |-> IF progress_callback /\ percent # NonePercent
                  THEN Append(sinks.progress, <<percent, message>>)
                  ELSE sinks.progress]

\* mutation: the draft stage starts at a percentage below the one reported
CheckpointOutOfOrder(n) ==
    CASE n = 1 -> <<"Starting research phase", 0>>
      [] n = 2 -> <<"Research phase completed", 25>>
      [] n = 3 -> <<"Starting creative content development", 0>>
      [] n = 4 -> <<"Creative content development completed", 50>>
      [] n = 5 -> <<"Starting code example generation", 50>>
      [] n = 6 -> <<"Code example generation completed", 75>>
      [] n = 7 -> <<"Extracting and formatting code", 75>>
      [] n = 8 -> <<"Content generation completed", 100>>

\* the eight log_and_progress calls of lines 124-178, in program order
Checkpoint(n) ==
    CASE n = 1 -> <<"Starting research phase", 0>>
      [] n = 2 -> <<"Research phase completed", 25>>
      [] n = 3 -> <<"Starting creative content development", 25>>
      [] n = 4 -> <<"Creative content development completed", 50>>
      [] n = 5 -> <<"Starting code example generation", 50>>
      [] n = 6 -> <<"Code example generation completed", 75>>
      [] n = 7 -> <<"Extracting and formatting code", 75>>
      [] n = 8 -> <<"Content generation completed", 100>>

\* the n-th log_and_progress call
Emit(sinks, n) == log_and_progress(sinks, Checkpoint(n)[1], Checkpoint(n)[2])

Sinks == [log |-> log_events, progress |-> progress_events]

SetSinks(sinks) ==
    /\ log_events' = sinks.log
    /\ progress_events' = sinks.progress

\* lines 124-131: first checkpoint, then the research call
StartResearch ==
    /\ pc = "start"
    /\ SetSinks(Emit(Sinks, 1))
    /\ EnterRetry
    /\ pc' = "research"
    /\ stage_log' = Append(stage_log, <<"research", "invoke">>)
    /\ UNCHANGED <<failures, progress_callback, log_callback, blog_structure,
                   full_blog_content, code_example_text, extracted_code,
                   formatted_code, format_call, result, error>>

\* lines 131-143: the research call returned; two checkpoints, the draft call
StartDraft ==
    /\ pc = "research"
    /\ rpc = "returned"
    /\ blog_structure' = ret
    /\ SetSinks(Emit(Emit(Sinks, 2), 3))
    /\ EnterRetry
    /\ pc' = "draft"
    /\ stage_log' = stage_log \o <<<<"research", "returned">>, <<"draft", "invoke">>>>
    /\ UNCHANGED <<failures, progress_callback, log_callback, full_blog_content,
                   code_example_text, extracted_code, formatted_code, format_call, result,
                   error>>

\* lines 143-155: the draft call returned; two checkpoints, the code call
StartCode ==
    /\ pc = "draft"
    /\ rpc = "returned"
    /\ full_blog_content' = ret
    /\ SetSinks(Emit(Emit(Sinks, 4), 5))
    /\ EnterRetry
    /\ pc' = "code"
    /\ stage_log' = stage_log \o <<<<"draft", "returned">>, <<"code", "invoke">>>>
    /\ UNCHANGED <<failures, progress_callback, log_callback, blog_structure,
                   code_example_text, extracted_code, formatted_code, format_call, result,
                   error>>

\* mutation: the failing call hands back what it had collected
ResultOnErrorPartial ==
    <<[blog_structure |-> blog_structure.content,
       blog_content |-> full_blog_content.content,
       original |-> <<>>, formatted |-> <<>>, language |-> "python"]>>

\* main, lines 265-267: the f-strings render str(e), the message of the
\* exception that was raised and of no other
ReportedCauses(err) == {err.who}

\* main, lines 232-267: result is bound only when the call returns; in the
\* except clause the caller holds the exception and no report
ResultOnError == <<>>

\* lines 181-190
Report(extracted, formatted) ==
    [blog_structure |-> blog_structure.content,
     blog_content |-> full_blog_content.content,
     original |-> extracted,
     formatted |-> formatted,
     language |-> "python"]

\* lines 155-190: the code call returned; two checkpoints, extraction,
\* formatting, the last checkpoint and the returned report.  re.search raises
\* TypeError when code_example_text is a message instead of a str.
ExtractAndFormat ==
    /\ pc = "code"
    /\ rpc = "returned"
    /\ code_example_text' = ret
    /\ LET at75 == Emit(Emit(Sinks, 6), 7)
       IN  IF ret.isStr
           THEN \E black \in {"ok", "raise"} :
                  LET extracted == extract_code_block(ret.content)
                      formatted == format_code(extracted, "python", black)
                  IN  /\ extracted_code' = extracted
                      /\ formatted_code' = formatted
                      /\ format_call' = [language |-> "python", black |-> black]
                      /\ SetSinks(Emit(at75, 8))
                      /\ result' = <<Report(extracted, formatted)>>
                      /\ pc' = "done"
                      /\ stage_log' = stage_log \o <<<<"code", "returned">>,
                                                     <<"extract", "done">>,
                                                     <<"format", "done">>>>
                      /\ UNCHANGED error
           ELSE /\ SetSinks(at75)
                /\ error' = [who |-> "extract", kind |-> "TypeError",
                             context |-> "none"]
                /\ pc' = "failed"
                /\ stage_log' = stage_log \o <<<<"code", "returned">>,
                                               <<"extract", "raised">>>>
                /\ result' = ResultOnError
                /\ UNCHANGED <<extracted_code, formatted_code, format_call>>
    /\ rpc' = "idle"
    /\ UNCHANGED <<attempt, calls, outcome, ret, failures, progress_callback,
                   log_callback, blog_structure, full_blog_content>>

\* generate_with_retry raised: generate_technical_content has no handler, so
\* the exception leaves it and reaches the except clause of main (264-267)
PropagateError ==
    /\ pc \in Stages
    /\ rpc = "raised"
    /\ error' = outcome
    /\ pc' = "failed"
    /\ rpc' = "idle"
    /\ stage_log' = Append(stage_log, <<pc, "raised">>)
    /\ result' = ResultOnError
    /\ UNCHANGED <<attempt, calls, outcome, ret, failures, progress_callback,
                   log_callback, progress_events, log_events, blog_structure,
                   full_blog_content, code_example_text, extracted_code,
                   formatted_code, format_call>>

Init ==
    /\ pc = "start"
    /\ rpc = "idle"
    /\ attempt = 0
    /\ calls = <<>>
    /\ outcome = NoError
    /\ ret = NoValue
    /\ failures = 0
    /\ stage_log = <<>>
    /\ progress_callback \in BOOLEAN
    /\ log_callback \in BOOLEAN
    /\ progress_events = <<>>
    /\ log_events = <<>>
    /\ blog_structure = NoValue
    /\ full_blog_content = NoValue
    /\ code_example_text = NoValue
    /\ extracted_code = <<>>
    /\ formatted_code = <<>>
    /\ format_call = NoFormatCall
    /\ result = <<>>
    /\ error = NoError

Next ==
    \/ StartResearch
    \/ PrimaryInvoke
    \/ BackupInvoke
    \/ RetrySleep
    \/ StartDraft
    \/ StartCode
    \/ ExtractAndFormat
    \/ PropagateError

Spec == Init /\ [][Next]_vars

-----------------------------------------------------------------------------
(* Properties of generate_with_retry *)

CallsBy(who) == {i \in DOMAIN calls : calls[i].who = who}
Count(who) == Cardinality(CallsBy(who))
PrimaryBefore(i) == Cardinality({j \in CallsBy("primary") : j < i})
IsFirstBackup(i) == i \in CallsBy("backup") /\ \A j \in CallsBy("backup") : i <= j

\* every primary call of the invocation raised an error the except clause names
PrimaryAlwaysCaught ==
    /\ calls # <<>>
    /\ \A i \in CallsBy("primary") : calls[i].out = "caught"

\* the first primary call raised an error the except clause does not name
FirstPrimaryUncaught == calls # <<>> /\ calls[1] = Call("primary", "other")

\* C1 as stated: when every primary call raises a retryable error, the
\* primary model has been called exactly MaxAttempts (3) times before the
\* first call to the backup model.
C1_PrimaryExhaustedBeforeFallback ==
    PrimaryAlwaysCaught =>
        \A i \in DOMAIN calls : IsFirstBackup(i) => PrimaryBefore(i) = MaxAttempts

\* C1 amended: when every primary call raises a caught error, exactly one
\* primary call precedes the first backup call (the backup is called inside
\* the same attempt); the budget of 3 bounds the attempts, so an invocation
\* that ends by raising has made 3 primary and 3 backup calls.
C1_FallbackInsideEachAttempt ==
    PrimaryAlwaysCaught =>
        /\ \A i \in DOMAIN calls :
              IsFirstBackup(i) => i = 2 /\ PrimaryBefore(i) = 1
        /\ Count("primary") <= MaxAttempts
        /\ Count("primary") - 1 <= Count("backup")
        /\ Count("backup") <= Count("primary")
        /\ rpc = "raised" =>
              Count("primary") = MaxAttempts /\ Count("backup") = MaxAttempts

C1_Witness ==
    /\ PrimaryAlwaysCaught
    /\ rpc = "raised"
    /\ Count("backup") = MaxAttempts

\* C2 as stated: when the first primary call raises a non-retryable error
\* there is exactly one primary call, no backoff wait and no backup call, and
\* the invocation has failed.
C2_UncaughtFailsImmediately ==
    FirstPrimaryUncaught =>
        /\ Count("primary") = 1
        /\ Count("sleep") = 0
        /\ Count("backup") = 0
        /\ rpc \in {"raised", "idle"}

\* C2 amended: when the first primary call raises an error the except clause
\* does not name, no backup call is made in that attempt, but the invocation
\* does not fail there: the failure uses one of the 3 attempts, a backoff wait
\* of 4 follows, then the primary model is called again; the invocation
\* raises only after 3 attempts have failed.
C2_UncaughtIsRetried ==
    FirstPrimaryUncaught =>
        /\ Len(calls) = 1 => rpc = "sleep"
        /\ Len(calls) >= 2 => calls[2] = Sleep(4)
        /\ Len(calls) >= 3 => calls[3].who = "primary"
        /\ rpc = "raised" =>
              attempt = MaxAttempts /\ Count("primary") = MaxAttempts

C2_Witness ==
    /\ FirstPrimaryUncaught
    /\ Len(calls) >= 3
    /\ calls[3].who = "primary"

\* C3 as stated: the backup model is called at most once per invocation, only
\* after the primary model failed on all of its attempts, and a failed backup
\* call is followed by no further call.
C3_SingleFallbackAfterExhaustion ==
    /\ Count("backup") <= 1
    /\ \A i \in CallsBy("backup") :
          /\ PrimaryBefore(i) = MaxAttempts
          /\ \A j \in CallsBy("primary") : j < i => calls[j].out # "ok"
          /\ calls[i].out = "fail" => i = Len(calls)

\* C3 amended: the backup model is called at most once per attempt (at most
\* 3 times per invocation), each call directly after the primary call of the
\* same attempt raised a caught error; a failed backup call ends its attempt
\* and is followed by a backoff wait and another primary call while attempts
\* remain, and by no call once the third attempt has failed.
C3_FallbackOncePerAttempt ==
    /\ Count("backup") <= MaxAttempts
    /\ \A i \in CallsBy("backup") :
          /\ i > 1
          /\ calls[i - 1] = Call("primary", "caught")
          /\ (calls[i].out = "fail" /\ PrimaryBefore(i) < MaxAttempts) =>
                /\ i = Len(calls) => rpc = "sleep"
                /\ i < Len(calls) => calls[i + 1].who = "sleep"
                /\ i + 1 < Len(calls) => calls[i + 2].who = "primary"
          /\ (calls[i].out = "fail" /\ PrimaryBefore(i) = MaxAttempts) =>
                i = Len(calls) /\ rpc \in {"raised", "idle"}

C3_Witness ==
    /\ Count("backup") = 2
    /\ calls[Len(calls)] = Call("backup", "ok")
    /\ rpc = "returned"

-----------------------------------------------------------------------------
(* Properties of generate_technical_content *)

Logged(stage, event) == \E i \in DOMAIN stage_log : stage_log[i] = <<stage, event>>
Percents == [i \in DOMAIN progress_events |-> progress_events[i][1]]

\* C4: the draft call is made only after the research invocation returned a
\* value, the code call only after the draft invocation returned one,
\* extraction and formatting only after the code invocation returned one, and
\* after a failed stage nothing further is called, extracted or formatted.
C4_StagesInOrder ==
    /\ (pc = "draft" \/ Logged("draft", "invoke")) =>
          Logged("research", "returned") /\ blog_structure # NoValue
    /\ (pc = "code" \/ Logged("code", "invoke")) =>
          Logged("draft", "returned") /\ full_blog_content # NoValue
    /\ (Logged("extract", "done") \/ Logged("extract", "raised")
        \/ Logged("format", "done")) =>
          Logged("code", "returned") /\ code_example_text # NoValue
    /\ \A i \in DOMAIN stage_log :
          stage_log[i][2] = "raised" => i = Len(stage_log) /\ pc = "failed"
    /\ Logged("research", "raised") =>
          blog_structure = NoValue /\ ~Logged("draft", "invoke")
    /\ (Logged("research", "raised") \/ Logged("draft", "raised")) =>
          full_blog_content = NoValue /\ ~Logged("code", "invoke")
    /\ pc = "failed" =>
          /\ extracted_code = <<>>
          /\ formatted_code = <<>>
          /\ ~Logged("format", "done")
          /\ rpc = "idle"
    /\ (pc \in Stages /\ calls # <<>>) =>
          stage_log[Len(stage_log)] = <<pc, "invoke">>

C4_Witness ==
    /\ pc = "failed"
    /\ Logged("research", "returned")
    /\ Logged("draft", "raised")

\* C5 as stated: when the draft stage fails fatally the caller receives a
\* partial report with the research text populated, the draft text empty and
\* the failure cause, and the code-generation stage is never entered.
C5_PartialReportReturned ==
    (pc = "failed" /\ Logged("draft", "raised")) =>
        /\ result # <<>>
        /\ result[1].blog_structure = blog_structure.content
        /\ result[1].blog_content = <<>>
        /\ error # NoError
        /\ ~Logged("code", "invoke")

\* C5 amended: when a stage invocation fails fatally, generate_technical_content
\* returns no report at all: the exception leaves it and reaches the caller,
\* which holds the failure cause only; the results of the completed stages
\* stay in the locals of the abandoned call.  If the draft stage fails, the
\* research text had been produced, no draft text exists and the
\* code-generation stage is never entered.
C5_ErrorPropagatesWithoutReport ==
    pc = "failed" =>
        /\ result = <<>>
        /\ error # NoError
        /\ Logged("draft", "raised") =>
              /\ error = outcome
              /\ blog_structure # NoValue
              /\ full_blog_content = NoValue
              /\ code_example_text = NoValue
              /\ ~Logged("code", "invoke")

C5_Witness ==
    /\ pc = "failed"
    /\ Logged("draft", "raised")
    /\ blog_structure.content = <<WORD>>
    /\ error.who = "backup"

\* C6 as stated: when the research, draft and code model calls all succeed,
\* the progress sink receives exactly the percentages 0, 25, 50, 75, 100.
C6_FivePercentages ==
    (pc = "done" /\ progress_callback /\ failures = 0) =>
        Percents = <<0, 25, 50, 75, 100>>

\* C6 amended: when the research, draft and code model calls all succeed,
\* the progress sink receives exactly 0, 25, 25, 50, 50, 75, 75, 100: each of
\* 25, 50 and 75 is delivered twice, once when a stage completes and once
\* when the next one starts.
C6_EightPercentages ==
    (pc = "done" /\ progress_callback /\ failures = 0) =>
        Percents = <<0, 25, 25, 50, 50, 75, 75, 100>>

C6_Witness ==
    /\ pc = "done"
    /\ progress_callback
    /\ failures = 0
    /\ Len(progress_events) = 8

\* C7: in every run, completed or failed at any stage, the percentages
\* delivered to the progress sink are non-decreasing and each is one of
\* 0, 25, 50, 75, 100.
C7_ProgressMonotone ==
    /\ \A i \in DOMAIN Percents : Percents[i] \in {0, 25, 50, 75, 100}
    /\ \A i, j \in DOMAIN Percents : i < j => Percents[i] <= Percents[j]

C7_Witness ==
    /\ pc = "failed"
    /\ Logged("code", "raised")
    /\ Percents = <<0, 25, 25, 50, 50>>

-----------------------------------------------------------------------------
(* extract_code_block on its own, over bounded texts *)

\* number of pieces a text is put together from
MaxPieces == 3

\* every single token, and the delimited shapes a model answer is made of
Pieces ==
    { <<t>> : t \in Token } \cup
    { <<FENCE, PY, NL, WORD, NL, FENCE>>,
      <<FENCE, JS, NL, WORD, SP, WORD, NL, FENCE>>,
      <<FENCE, NL, FENCE>>,
      <<COPEN, KW_IMPORT, SP, WORD, CCLOSE>>,
      <<KW_DEF, SP, WORD>> }

RECURSIVE Flatten(_)
Flatten(ps) == IF ps = <<>> THEN <<>> ELSE Head(ps) \o Flatten(Tail(ps))

Texts == { Flatten(ps) : ps \in UNION { [1..n -> Pieces] : n \in 0..MaxPieces } }

InitExtract ==
    /\ pc = "x_input"
    /\ rpc = "idle"
    /\ attempt = 0
    /\ calls = <<>>
    /\ outcome = NoError
    /\ ret = NoValue
    /\ failures = 0
    /\ stage_log = <<>>
    /\ progress_callback = FALSE
    /\ log_callback = FALSE
    /\ progress_events = <<>>
    /\ log_events = <<>>
    /\ blog_structure = NoValue
    /\ full_blog_content = NoValue
    /\ \E t \in Texts :
          code_example_text = [by |-> "input", isStr |-> TRUE, content |-> t]
    /\ extracted_code = <<>>
    /\ formatted_code = <<>>
    /\ format_call = NoFormatCall
    /\ result = <<>>
    /\ error = NoError

\* line 175 alone: extracted_code = self.extract_code_block(code_example_text)
ExtractOnly ==
    /\ pc = "x_input"
    /\ extracted_code' = extract_code_block(code_example_text.content)
    /\ pc' = "x_done"
    /\ UNCHANGED <<rpc, attempt, calls, outcome, ret, failures, stage_log,
                   progress_callback, log_callback, progress_events,
                   log_events, blog_structure, full_blog_content,
                   code_example_text, formatted_code, format_call, result, error>>

NextExtract == ExtractOnly

SpecExtract == InitExtract /\ [][NextExtract]_vars

-----------------------------------------------------------------------------
(* Properties of extract_code_block, stated on the text itself *)

Input == code_example_text.content
Extracted == pc = "x_done"

\* r is t without its leading and trailing white space
IsTrimOf(r, t) ==
    \E lo \in 1..(Len(t) + 1), hi \in 0..Len(t) :
        /\ r = SubSeq(t, lo, hi)
        /\ \A m \in 1..(lo - 1) : IsSpace(t[m])
        /\ \A m \in (hi + 1)..Len(t) : IsSpace(t[m])
        /\ r # <<>> => ~IsSpace(r[1]) /\ ~IsSpace(r[Len(r)])

\* a fence at i whose line ends right after the fence or after one of tags,
\* content from b, nearest following fence at k
IsFencedBlock(s, tags, i, b, k) ==
    /\ s[i] = FENCE
    /\ \/ b = i + 2 /\ i + 1 <= Len(s) /\ s[i + 1] = NL
       \/ b = i + 3 /\ i + 2 <= Len(s) /\ s[i + 1] \in tags /\ s[i + 2] = NL
    /\ k >= b /\ k <= Len(s)
    /\ s[k] = FENCE
    /\ \A m \in b..(k - 1) : s[m] # FENCE

FenceOpensBlock(s, tags, i) ==
    \E b \in {i + 2, i + 3}, k \in (i + 2)..Len(s) : IsFencedBlock(s, tags, i, b, k)

HasFencedBlock(s, tags) == \E i \in 1..Len(s) : FenceOpensBlock(s, tags, i)

\* r is the trimmed content of the first fenced block of s
IsFirstFencedContent(r, s, tags) ==
    \E i \in 1..Len(s) :
        /\ \A h \in 1..(i - 1) : ~FenceOpensBlock(s, tags, h)
        /\ \E b \in {i + 2, i + 3}, k \in (i + 2)..Len(s) :
              /\ IsFencedBlock(s, tags, i, b, k)
              /\ IsTrimOf(r, SubSeq(s, b, k - 1))

\* <code> at i, nearest following </code> at k
IsCodePair(s, i, k) ==
    /\ s[i] = COPEN
    /\ k > i /\ k <= Len(s)
    /\ s[k] = CCLOSE
    /\ \A m \in (i + 1)..(k - 1) : s[m] # CCLOSE

HasCodePair(s) == \E i \in 1..Len(s), k \in 1..Len(s) : IsCodePair(s, i, k)

IsFirstCodePairContent(r, s) ==
    \E i \in 1..Len(s), k \in 1..Len(s) :
        /\ IsCodePair(s, i, k)
        /\ \A h \in 1..(i - 1) : \A k2 \in 1..Len(s) : ~IsCodePair(s, h, k2)
        /\ IsTrimOf(r, SubSeq(s, i + 1, k - 1))

\* after leading white space the text reads "def " or "import " and goes on
LeadsWithKeyword(s) ==
    \E j \in 1..Len(s) :
        /\ \A m \in 1..(j - 1) : IsSpace(s[m])
        /\ s[j] \in {KW_DEF, KW_IMPORT}
        /\ j + 1 <= Len(s) /\ s[j + 1] = SP
        /\ \E n \in (j + 2)..Len(s) : ~IsSpace(s[n])

\* C8: extract_code_block returns a non-empty string for every input text.
C8_NeverEmpty == Extracted => extracted_code # <<>>

\* C9 as stated: for a text with a fenced block whose opening fence is
\* untagged or tagged with any language name, extract_code_block returns the
\* trimmed content between that opening fence line and the nearest following
\* fence.
C9_AnyLanguageTag ==
    (Extracted /\ HasFencedBlock(Input, {PY, JS})) =>
        IsFirstFencedContent(extracted_code, Input, {PY, JS})

\* C9 amended: for a text with a fenced block whose opening fence is followed
\* directly by a newline or by the tag python and a newline,
\* extract_code_block returns the trimmed content between the first such
\* opening fence line and the nearest following fence; a fence carrying any
\* other tag does not open a block.
C9_PythonOrUntagged ==
    (Extracted /\ HasFencedBlock(Input, {PY})) =>
        IsFirstFencedContent(extracted_code, Input, {PY})

C9_Witness ==
    /\ Extracted
    /\ Input = <<WORD, FENCE, PY, NL, WORD, NL, FENCE, FENCE, NL, FENCE>>
    /\ extracted_code = <<WORD>>

\* C10 as stated: the first matching heuristic decides, in the order fenced
\* block, <code> pair, leading keyword, placeholder; the placeholder is
\* returned exactly when none of the three matches.
C10_PlaceholderExactlyWhenNoMatch ==
    Extracted =>
        /\ HasFencedBlock(Input, {PY}) =>
              IsFirstFencedContent(extracted_code, Input, {PY})
        /\ (~HasFencedBlock(Input, {PY}) /\ HasCodePair(Input)) =>
              IsFirstCodePairContent(extracted_code, Input)
        /\ (~HasFencedBlock(Input, {PY}) /\ ~HasCodePair(Input)
            /\ LeadsWithKeyword(Input)) =>
              IsTrimOf(extracted_code, Input)
        /\ extracted_code = Placeholder <=>
              /\ ~HasFencedBlock(Input, {PY})
              /\ ~HasCodePair(Input)
              /\ ~LeadsWithKeyword(Input)

\* C10 amended: the first matching heuristic decides, in the order fenced
\* block, <code> pair, leading keyword, placeholder; the placeholder is
\* returned whenever none of the three matches, and otherwise only when the
\* fenced or <code> content that was matched is itself the placeholder text.
C10_FirstMatchDecides ==
    Extracted =>
        /\ HasFencedBlock(Input, {PY}) =>
              IsFirstFencedContent(extracted_code, Input, {PY})
        /\ (~HasFencedBlock(Input, {PY}) /\ HasCodePair(Input)) =>
              IsFirstCodePairContent(extracted_code, Input)
        /\ (~HasFencedBlock(Input, {PY}) /\ ~HasCodePair(Input)
            /\ LeadsWithKeyword(Input)) =>
              IsTrimOf(extracted_code, Input) /\ extracted_code # Placeholder
        /\ (~HasFencedBlock(Input, {PY}) /\ ~HasCodePair(Input)
            /\ ~LeadsWithKeyword(Input)) =>
              extracted_code = Placeholder

C10_Witness ==
    /\ Extracted
    /\ Input = <<KW_DEF, SP, WORD>> \o <<COPEN, KW_IMPORT, SP, WORD, CCLOSE>>
                \o <<FENCE, PY, NL, WORD, NL, FENCE>>
    /\ extracted_code = <<WORD>>

-----------------------------------------------------------------------------
(* Backoff between attempts *)

\* largest attempt index the wait formula is compared at
MaxWaitIndex == 5

\* base * 2^i held between the floor and the ceiling, as the formula reads
ClampedBackoff(i) ==
    LET raw == Multiplier * (2 ^ i)
        floored == IF raw < WaitMin THEN WaitMin ELSE raw
    IN  IF floored > WaitMax THEN WaitMax ELSE floored

\* the waits of the current invocation, in order
Waits == [n \in 1..Count("sleep") |->
            calls[CHOOSE i \in CallsBy("sleep") :
                    Cardinality({j \in CallsBy("sleep") : j <= i}) = n].secs]

\* C11: the wait after the failed attempt with index i (from 0) is
\* min(10, max(4, 1 * 2^i)): every wait lies in 4..10, and the waits after
\* the attempts with index 0 and 1 are 4 and 4.
C11_BackoffFormula ==
    /\ \A i \in 0..MaxWaitIndex :
          /\ wait_exponential(i + 1) = ClampedBackoff(i)
          /\ wait_exponential(i + 1) \in WaitMin..WaitMax
    /\ \A n \in DOMAIN Waits :
          /\ Waits[n] = ClampedBackoff(n - 1)
          /\ Waits[n] \in 4..10
          /\ n <= 2 => Waits[n] = 4
    /\ \A i \in CallsBy("sleep") :
          /\ i > 1 /\ calls[i - 1].who \in {"primary", "backup"}
          /\ calls[i - 1].out # "ok"
          /\ i < Len(calls) => calls[i + 1].who = "primary"

C11_Witness ==
    /\ Count("sleep") = 2
    /\ Waits = <<4, 4>>
    /\ rpc = "primary"
    /\ attempt = 3

-----------------------------------------------------------------------------
(* format_code on its own, beside the pipeline that calls it *)

\* number of pieces a text handed to format_code is put together from
MaxFormatPieces == 2

FormatTexts ==
    { Flatten(ps) : ps \in UNION { [1..n -> Pieces] : n \in 0..MaxFormatPieces } }

\* values of the language parameter: the default, another spelling of it,
\* and a language format_code has no branch for
Languages == {"python", "Python", "js"}

InitFormat ==
    /\ pc = "f_input"
    /\ rpc = "idle"
    /\ attempt = 0
    /\ calls = <<>>
    /\ outcome = NoError
    /\ ret = NoValue
    /\ failures = 0
    /\ stage_log = <<>>
    /\ progress_callback = FALSE
    /\ log_callback = FALSE
    /\ progress_events = <<>>
    /\ log_events = <<>>
    /\ blog_structure = NoValue
    /\ full_blog_content = NoValue
    /\ code_example_text = NoValue
    /\ extracted_code \in FormatTexts
    /\ formatted_code = <<>>
    /\ format_call = NoFormatCall
    /\ result = <<>>
    /\ error = NoError

\* lines 162-172 alone: formatted_code = format_code(extracted_code, language).
\* black and isort run, and may raise, only on the python branch.
FormatOnly ==
    /\ pc = "f_input"
    /\ \E language \in Languages :
         \E black \in (IF Lower(language) = "python"
                       THEN {"ok", "raise"} ELSE {"not called"}) :
            /\ formatted_code' = format_code(extracted_code, language, black)
            /\ format_call' = [language |-> language, black |-> black]
    /\ pc' = "f_done"
    /\ UNCHANGED <<rpc, attempt, calls, outcome, ret, failures, stage_log,
                   progress_callback, log_callback, progress_events,
                   log_events, blog_structure, full_blog_content,
                   code_example_text, extracted_code, result, error>>

NextFormat == Next \/ FormatOnly

SpecFormat == (Init \/ InitFormat) /\ [][NextFormat]_vars

\* C12: format_code returns its input unchanged when the language is not a
\* supported one (black is not called) and when the normalization raises;
\* in the pipeline a formatting failure still ends with progress 100 and the
\* returned report, and no failure of the run comes from format_code.
C12_FormatNeverFatal ==
    /\ pc \in {"f_done", "done"} =>
          /\ format_call.language \notin {"python", "Python"} =>
                format_call.black = "not called" /\ formatted_code = extracted_code
          /\ format_call.language \in {"python", "Python"} =>
                format_call.black \in {"ok", "raise"}
          /\ format_call.black = "raise" => formatted_code = extracted_code
    /\ Logged("extract", "done") =>
          /\ pc = "done"
          /\ Logged("format", "done")
          /\ error = NoError
          /\ result # <<>>
          /\ result[1].original = extracted_code
          /\ result[1].formatted = formatted_code
          /\ progress_callback =>
                progress_events[Len(progress_events)][1] = 100
    /\ error.who \in {"none", "primary", "backup", "extract"}

C12_Witness ==
    /\ pc = "done"
    /\ format_call = [language |-> "python", black |-> "raise"]
    /\ extracted_code = <<WORD>>
    /\ formatted_code = <<WORD>>
    /\ progress_callback
    /\ result # <<>>

-----------------------------------------------------------------------------
(* What a failed generate_with_retry raises *)

\* every backup call of the invocation raised
BackupAlwaysFailed ==
    \A i \in CallsBy("backup") : calls[i].out = "fail"

\* the invocation ended by raising, or its error has reached the caller
Exhausted ==
    /\ PrimaryAlwaysCaught
    /\ BackupAlwaysFailed
    /\ \/ rpc = "raised"
       \/ pc = "failed" /\ error.who \in {"primary", "backup"}

\* what the caller holds once the invocation has ended
Raised == IF pc = "failed" THEN error ELSE outcome

-----------------------------------------------------------------------------
(* The two optional sinks *)

\* log_and_progress calls made so far, read off the position of the run
Passed ==
    CASE pc = "research" -> 1
      [] pc = "draft" -> 3
      [] pc = "code" -> 5
      [] pc = "done" -> 8
      [] pc = "failed" ->
            IF Logged("extract", "raised") THEN 7
            ELSE IF Logged("code", "raised") THEN 5
            ELSE IF Logged("draft", "raised") THEN 3
            ELSE 1
      [] OTHER -> 0

\* percentages and messages of the calls of lines 124-178, as written there
Announced ==
    << <<0, "Starting research phase">>,
       <<25, "Research phase completed">>,
       <<25, "Starting creative content development">>,
       <<50, "Creative content development completed">>,
       <<50, "Starting code example generation">>,
       <<75, "Code example generation completed">>,
       <<75, "Extracting and formatting code">>,
       <<100, "Content generation completed">> >>

\* C14: the two sinks are independently optional.  What a supplied sink has
\* received depends only on how far the run has got, never on whether the
\* other sink is supplied, and starts with percentage 0; an omitted sink
\* receives nothing and causes no error; every step that starts a stage
\* and every model call is possible exactly at its position in the run,
\* whatever sinks are supplied, so calls and result do not depend on them.
C14_SinksIndependent ==
    /\ progress_events =
          IF progress_callback THEN SubSeq(Announced, 1, Passed) ELSE <<>>
    /\ log_events =
          IF log_callback
          THEN [i \in 1..Passed |-> Announced[i][2]]
          ELSE <<>>
    /\ (progress_callback /\ Passed >= 1) => progress_events[1][1] = 0
    /\ error.who \in {"none", "primary", "backup", "extract"}
    /\ (ENABLED StartResearch) <=> pc = "start"
    /\ (ENABLED StartDraft) <=> (pc = "research" /\ rpc = "returned")
    /\ (ENABLED StartCode) <=> (pc = "draft" /\ rpc = "returned")
    /\ (ENABLED PrimaryInvoke) <=> (pc \in Stages /\ rpc = "primary")
    /\ (ENABLED BackupInvoke) <=> (pc \in Stages /\ rpc = "backup")
    /\ (ENABLED RetrySleep) <=> (pc \in Stages /\ rpc = "sleep")
    /\ (ENABLED PropagateError) <=> (pc \in Stages /\ rpc = "raised")

C14_Witness ==
    /\ pc = "done"
    /\ progress_callback
    /\ ~log_callback
    /\ Len(progress_events) = 8
    /\ log_events = <<>>
    /\ result # <<>>

-----------------------------------------------------------------------------
(* Resources of one generate_with_retry invocation *)

InProgress == pc \in Stages /\ rpc \in {"primary", "backup", "sleep"}

\* C15: whatever the primary and the backup model do, one invocation of
\* generate_with_retry ends, by returning a value or by raising the last
\* error, after at most 3 attempts, with at most 3 calls to the primary model
\* and at most 3 calls to the backup model.
C15_BoundedInvocation ==
    /\ attempt <= 3
    /\ Count("primary") <= 3
    /\ Count("backup") <= 3
    /\ Count("sleep") <= 2
    /\ Len(calls) <= 8
    /\ InProgress =>
          ENABLED (PrimaryInvoke \/ BackupInvoke \/ RetrySleep)
    /\ rpc = "returned" =>
          /\ calls[Len(calls)].out = "ok"
          /\ ret # NoValue
          /\ ret.by = calls[Len(calls)].who
    /\ rpc = "raised" =>
          /\ attempt = 3
          /\ calls[Len(calls)].who \in {"primary", "backup"}
          /\ calls[Len(calls)].out \notin {"ok", "caught"}
          /\ outcome.who = calls[Len(calls)].who
          /\ outcome.kind = calls[Len(calls)].out

C15_Witness ==
    /\ rpc = "raised"
    /\ Count("primary") = 3
    /\ Count("backup") = 2
    /\ outcome.who = "primary"

====
